---- MODULE Spec2Model ----
(***************************************************************************)
(* Conversation / command mediation engine of llm-term-gui                 *)
(* (src/src/gui.rs, LlmTermApp) with the Gateway of src/src/model.rs.      *)
(*                                                                         *)
(* Text is modelled as a sequence of one-character strings, so that trim,  *)
(* to_lowercase, chars().take(n), find and contains are computed the way   *)
(* the Rust code computes them.  Timestamps (Utc::now()) are not part of   *)
(* the state: no code path reads them.                                     *)
(***************************************************************************)
EXTENDS Integers, Sequences, FiniteSets, TLC

(***************************************************************************)
(* Bounds of the model.                                                    *)
(***************************************************************************)
\* number of handle_user_prompt calls in one run
MaxTurns == 3
\* number of "+ New Chat" clicks in one run
MaxNewChats == 1
\* number of clicks on a session of the history panel in one run
MaxLoads == 1

(***************************************************************************)
(* String literals of the program.                                         *)
(***************************************************************************)
\* gui.rs:245  response.contains("EXECUTE_LAST_COMMAND")
EXECUTE_LAST_COMMAND ==
    <<"E", "X", "E", "C", "U", "T", "E", "_", "L", "A", "S", "T", "_",
      "C", "O", "M", "M", "A", "N", "D">>
\* gui.rs:260  response.find("COMMAND: ")
COMMAND_MARKER == <<"C", "O", "M", "M", "A", "N", "D", ":", " ">>
\* gui.rs:262  the pattern of cmd_part.find: the backtick character, which
\* the model writes as the one-character atom BT
BT == "<backtick>"
BACKTICK == <<BT>>
\* gui.rs:38 and gui.rs:181
NEW_CHAT_TITLE == <<"N", "e", "w", " ", "C", "h", "a", "t">>
\* gui.rs:221  format!("unified:{}", prompt)
CACHE_PREFIX == <<"u", "n", "i", "f", "i", "e", "d", ":">>
\* gui.rs:236 and model.rs:75
ERROR_PREFIX == <<"E", "r", "r", "o", "r", ":", " ">>
\* gui.rs:231
FALLBACK_REPLY ==
    <<"I", "'", "m", " ", "n", "o", "t", " ", "s", "u", "r", "e", " ",
      "h", "o", "w", " ", "t", "o", " ", "r", "e", "s", "p", "o", "n", "d",
      " ", "t", "o", " ", "t", "h", "a", "t", ".">>
\* gui.rs:199 and gui.rs:251
EXECUTING_PREFIX == <<"E", "x", "e", "c", "u", "t", "i", "n", "g", ":", " ">>
OUTPUT_HEADER == <<"\n", "\n", "O", "u", "t", "p", "u", "t", ":", "\n">>
\* gui.rs:157
NO_OUTPUT_SENTINEL ==
    <<"C", "o", "m", "m", "a", "n", "d", " ", "e", "x", "e", "c", "u", "t",
      "e", "d", " ", "s", "u", "c", "c", "e", "s", "s", "f", "u", "l", "l",
      "y", " ", "(", "n", "o", " ", "o", "u", "t", "p", "u", "t", ")">>
\* gui.rs:161
EXEC_FAILED_PREFIX ==
    <<"C", "o", "m", "m", "a", "n", "d", " ", "e", "x", "e", "c", "u", "t",
      "i", "o", "n", " ", "f", "a", "i", "l", "e", "d", ":", " ">>
\* gui.rs:164
START_FAILED_PREFIX ==
    <<"F", "a", "i", "l", "e", "d", " ", "t", "o", " ", "s", "t", "a", "r",
      "t", " ", "c", "o", "m", "m", "a", "n", "d", ":", " ">>
\* gui.rs:184  .take(30)
TitleMax == 30

\* gui.rs:193  the affirmation tokens of matches!(...)
AffirmationTokens ==
    { <<"y", "e", "s">>,
      <<"y">>,
      <<"s", "u", "r", "e">>,
      <<"g", "o", " ", "a", "h", "e", "a", "d">>,
      <<"e", "x", "e", "c", "u", "t", "e">>,
      <<"r", "u", "n", " ", "i", "t">>,
      <<"d", "o", " ", "i", "t">> }

(***************************************************************************)
(* Text functions of the Rust standard library, as the code uses them.     *)
(***************************************************************************)
UpperChars ==
    <<"A", "B", "C", "D", "E", "F", "G", "H", "I", "J", "K", "L", "M",
      "N", "O", "P", "Q", "R", "S", "T", "U", "V", "W", "X", "Y", "Z">>
LowerChars ==
    <<"a", "b", "c", "d", "e", "f", "g", "h", "i", "j", "k", "l", "m",
      "n", "o", "p", "q", "r", "s", "t", "u", "v", "w", "x", "y", "z">>

\* char::is_whitespace, on the characters the model's texts are made of
IsWhitespace(c) == c \in {" ", "\t", "\n", "\r"}

\* char::to_lowercase on one character
LowerChar(c) ==
    IF \E i \in 1..Len(UpperChars) : UpperChars[i] = c
    THEN LowerChars[CHOOSE i \in 1..Len(UpperChars) : UpperChars[i] = c]
    ELSE c

\* str::to_lowercase
ToLowercase(s) == [i \in 1..Len(s) |-> LowerChar(s[i])]

\* str::trim_end: drop the longest suffix of whitespace
TrimEnd(s) ==
    LET keep == {i \in 1..Len(s) : ~IsWhitespace(s[i])}
    IN  IF keep = {} THEN <<>>
        ELSE SubSeq(s, 1, CHOOSE i \in keep : \A j \in keep : j <= i)

\* str::trim_start: drop the longest prefix of whitespace
TrimStart(s) ==
    LET keep == {i \in 1..Len(s) : ~IsWhitespace(s[i])}
    IN  IF keep = {} THEN <<>>
        ELSE SubSeq(s, CHOOSE i \in keep : \A j \in keep : i <= j, Len(s))

\* str::trim
Trim(s) == TrimStart(TrimEnd(s))

\* chars().take(n).collect::<String>()
TakeChars(s, n) == SubSeq(s, 1, IF Len(s) < n THEN Len(s) ELSE n)

\* str::find(pat): the 1-based index of the first occurrence, 0 for None
Find(s, pat) ==
    LET hits == {i \in 1..(Len(s) - Len(pat) + 1) :
                    SubSeq(s, i, i + Len(pat) - 1) = pat}
    IN  IF hits = {} THEN 0
        ELSE CHOOSE i \in hits : \A j \in hits : i <= j

\* str::contains(pat)
Contains(s, pat) == Find(s, pat) # 0

\* Option<T>
None == [some |-> FALSE]
Some(v) == [some |-> TRUE, val |-> v]

(***************************************************************************)
(* Inputs: what the user types, what the Gateway's HTTP client answers and *)
(* what the spawned shell does.                                            *)
(***************************************************************************)
\* an affirmation token with surrounding whitespace and in upper case
P_Y == <<" ", "Y", " ">>
\* a request whose text is the default title
P_new_chat == <<"N", "e", "w", " ", "C", "h", "a", "t">>
\* a request of 33 characters whose 30th character is a space
P_long ==
    <<"l", "i", "s", "t", " ", "e", "v", "e", "r", "y", " ", "f", "i", "l",
      "e", " ", "i", "n", " ", "t", "h", "e", " ", "f", "o", "l", "d", "e",
      "r", " ", "n", "o", "w">>

\* the seven affirmations, typed as they are
P_yes == <<"y", "e", "s">>
P_y == <<"y">>
P_sure == <<"s", "u", "r", "e">>
P_go_ahead == <<"g", "o", " ", "a", "h", "e", "a", "d">>
P_execute == <<"e", "x", "e", "c", "u", "t", "e">>
P_run_it == <<"r", "u", "n", " ", "i", "t">>
P_do_it == <<"d", "o", " ", "i", "t">>
TokenPrompts ==
    {P_yes, P_y, P_sure, P_go_ahead, P_execute, P_run_it, P_do_it}

Prompts == {P_Y, P_new_chat, P_long} \cup TokenPrompts

\* a reply without any marker
R_plain == <<"o", "k">>
\* two proposals, the first one quoted in backticks
R_propose_ls ==
    <<BT, "C", "O", "M", "M", "A", "N", "D", ":", " ", "l", "s", BT, " ",
      "C", "O", "M", "M", "A", "N", "D", ":", " ", "i", "d", BT>>
\* a proposal with whitespace around the command
R_propose_id ==
    <<"C", "O", "M", "M", "A", "N", "D", ":", " ", " ", "i", "d", " ", BT>>
\* the execution trigger
R_execute == EXECUTE_LAST_COMMAND
\* a proposal marker that no backtick terminates
R_unterminated == <<"C", "O", "M", "M", "A", "N", "D", ":", " ", "l", "s">>

Replies == {R_plain, R_propose_ls, R_propose_id, R_execute, R_unterminated}

\* a proposal whose command, not the whole proposal, is quoted in backticks
R_propose_quoted ==
    <<"C", "O", "M", "M", "A", "N", "D", ":", " ", BT, "l", "s", BT>>

\* {:?} of the openai_api_rust error of a failed request
E_timeout == <<"t", "i", "m", "e", "o", "u", "t">>
ClientErrors == {E_timeout}

\* client.chat_completion_create(&body): a completion whose first choice
\* carries a message, a completion without one, or an error
ApiOk(content) == [kind |-> "ok", content |-> content]
ApiErr(debug) == [kind |-> "err", debug |-> debug]
ApiResults ==
    {ApiOk(Some(r)) : r \in Replies} \cup {ApiOk(None)}
        \cup {ApiErr(e) : e \in ClientErrors}

\* The runs the model explores.  A run draws its inputs from one of three
\* families, fixed when the run starts:
\*   "replies": every answer of the Gateway, to an affirmation and to an
\*              ordinary request;
\*   "titles":  the requests that matter to the title, plainly answered;
\*   "tokens":  every affirmation token, answered by a proposal;
\*   "outputs": every way a command can end, the command proposed by the
\*              Gateway and confirmed by the user or by the Gateway;
\*   "quoted":  requests answered by a proposal that quotes the command.
Scenarios == {"replies", "titles", "tokens", "outputs", "quoted"}
PromptsOf(sc) ==
    IF sc = "replies" THEN {P_Y, P_new_chat}
    ELSE IF sc = "titles" THEN {P_Y, P_new_chat, P_long}
    ELSE IF sc = "tokens" THEN TokenPrompts \cup {P_Y}
    ELSE {P_Y, P_new_chat}
ApiResultsOf(sc) ==
    IF sc = "replies" THEN ApiResults
    ELSE IF sc = "titles" THEN {ApiOk(Some(R_plain))}
    ELSE IF sc = "tokens" THEN {ApiOk(Some(R_propose_ls))}
    ELSE IF sc = "outputs"
    THEN {ApiOk(Some(R_propose_ls)), ApiOk(Some(R_execute))}
    ELSE {ApiOk(Some(R_propose_quoted))}

\* what the spawned shell does with a command: the child's output, or the
\* io::Error of spawn() or of wait_with_output()
O_stdout == [kind |-> "ok", stdout |-> <<"a">>, stderr |-> <<>>]
O_silent == [kind |-> "ok", stdout |-> <<>>, stderr |-> <<>>]
O_stderr == [kind |-> "ok", stdout |-> <<>>, stderr |-> <<"e">>]
O_both == [kind |-> "ok", stdout |-> <<"a">>, stderr |-> <<"e">>]
O_both_nl == [kind |-> "ok", stdout |-> <<"a", "\n">>, stderr |-> <<"e">>]
O_spawn_err == [kind |-> "spawn_err", err |-> <<"n", "o">>]
O_wait_err == [kind |-> "wait_err", err |-> <<"i", "o">>]
ExecOutcomes ==
    {O_stdout, O_silent, O_stderr, O_both, O_both_nl, O_spawn_err, O_wait_err}
ExecOutcomesOf(sc) ==
    IF sc = "outputs" THEN ExecOutcomes ELSE {O_stdout, O_silent}

(***************************************************************************)
(* Data model (gui.rs:16-56).                                              *)
(***************************************************************************)
\* ChatMessage { content, is_user, is_command, executed }
ChatMessage(content, is_user) ==
    [content |-> content, is_user |-> is_user,
     is_command |-> FALSE, executed |-> FALSE]

\* a variant of DefaultSession that gives every session the same id
DefaultSession_FixedId(uuid) ==
    [id |-> 1, title |-> NEW_CHAT_TITLE, messages |-> <<>>]

\* ChatSession::default() with the uuid drawn
DefaultSession(uuid) ==
    [id |-> uuid, title |-> NEW_CHAT_TITLE, messages |-> <<>>]

\* a session list a former run left in ~/.llm_term_sessions.json
StoredSession ==
    [id |-> 0, title |-> R_plain,
     messages |-> <<ChatMessage(R_plain, TRUE), ChatMessage(R_plain, FALSE)>>]
StoredLists == {<<>>, <<StoredSession>>}

(***************************************************************************)
(* Model::llm_get_response (model.rs:28-77).                               *)
(***************************************************************************)
SYSTEM_PROMPT == <<"s", "y", "s">>

\* model.rs:35-52: the messages of the request body
BuildMessages(user_prompt, conversation_history) ==
    <<[role |-> "System", content |-> SYSTEM_PROMPT]>>
    \o [i \in 1..Len(conversation_history) |->
          [role |-> IF conversation_history[i].is_user
                    THEN "User" ELSE "Assistant",
           content |-> conversation_history[i].content]]
    \o <<[role |-> "User", content |-> user_prompt]>>

\* model.rs:69-76: Result<Option<String>, Box<dyn Error>>
LlmGetResponse(api) ==
    IF api.kind = "ok"
    THEN [kind |-> "Ok", value |-> api.content]
    ELSE [kind |-> "Err", error |-> ERROR_PREFIX \o api.debug]

(***************************************************************************)
(* LlmTermApp::execute_command (gui.rs:132-166).                           *)
(***************************************************************************)
\* a variant of ExecuteCommand that joins stdout and stderr directly
ExecuteCommand_NoSeparator(command, outcome) ==
    IF outcome.kind = "spawn_err" THEN START_FAILED_PREFIX \o outcome.err
    ELSE IF outcome.kind = "wait_err" THEN EXEC_FAILED_PREFIX \o outcome.err
    ELSE IF outcome.stdout \o outcome.stderr = <<>> THEN NO_OUTPUT_SENTINEL
    ELSE outcome.stdout \o outcome.stderr

ExecuteCommand(command, outcome) ==
    IF outcome.kind = "spawn_err" THEN START_FAILED_PREFIX \o outcome.err
    ELSE IF outcome.kind = "wait_err" THEN EXEC_FAILED_PREFIX \o outcome.err
    ELSE LET r1 == IF outcome.stdout # <<>> THEN outcome.stdout ELSE <<>>
             r2 == IF outcome.stderr # <<>>
                   THEN (IF r1 # <<>> THEN r1 \o <<"\n">> ELSE r1)
                            \o outcome.stderr
                   ELSE r1
         IN  IF r2 = <<>> THEN NO_OUTPUT_SENTINEL ELSE r2

\* gui.rs:199 and gui.rs:251
ExecutionReport(pending_cmd, output) ==
    EXECUTING_PREFIX \o pending_cmd \o OUTPUT_HEADER \o output

(***************************************************************************)
(* The pieces of LlmTermApp::handle_user_prompt (gui.rs:171-282).          *)
(***************************************************************************)
\* a variant of TitleAfter that cuts without trimming the end
TitleAfter_NoTrimEnd(title, prompt) ==
    IF title = NEW_CHAT_TITLE THEN TakeChars(prompt, TitleMax) ELSE title

\* a variant of MessagesAfterPrompt that logs the trimmed utterance
MessagesAfterPrompt_Trimmed(messages, prompt) ==
    Append(messages, ChatMessage(Trim(prompt), TRUE))

\* gui.rs:173-179: the messages after the user message is pushed
MessagesAfterPrompt(messages, prompt) ==
    Append(messages, ChatMessage(prompt, TRUE))

\* gui.rs:213-219: the conversation history handed to the Gateway
ConversationHistory(messages) ==
    [i \in 1..Len(messages) |->
        [content |-> messages[i].content, is_user |-> messages[i].is_user]]

\* gui.rs:181-188
TitleAfter(title, prompt) ==
    IF title = NEW_CHAT_TITLE
    THEN TrimEnd(TakeChars(prompt, TitleMax))
    ELSE title

\* a variant of IsAffirmation that takes every utterance for a yes
IsAffirmation_Any(prompt) == TRUE

\* a variant of IsAffirmation that lower-cases without trimming
IsAffirmation_NoTrim(prompt) == ToLowercase(prompt) \in AffirmationTokens

\* gui.rs:192-193
IsAffirmation(prompt) == ToLowercase(Trim(prompt)) \in AffirmationTokens

\* a variant of CacheKey that keys the trimmed utterance
CacheKey_Trimmed(prompt) == CACHE_PREFIX \o Trim(prompt)

\* gui.rs:221
CacheKey(prompt) == CACHE_PREFIX \o prompt

\* a variant of CacheInsert that keeps the newest entry only
CacheInsert_Single(c, key, value) == [k \in {key} |-> value]

\* HashMap::insert
CacheInsert(c, key, value) ==
    [k \in (DOMAIN c) \cup {key} |-> IF k = key THEN value ELSE c[k]]

\* a variant of ReplyOf that shows the error without the prefix
ReplyOf_NoPrefix(result) ==
    IF result.kind = "Ok"
    THEN (IF result.value.some THEN result.value.val ELSE FALLBACK_REPLY)
    ELSE result.error

\* gui.rs:226-239: the reply of a Gateway result
ReplyOf(result) ==
    IF result.kind = "Ok"
    THEN (IF result.value.some THEN result.value.val ELSE FALLBACK_REPLY)
    ELSE ERROR_PREFIX \o result.error

\* a variant of CacheAfterCall that memoizes successful calls only
CacheAfterCall_OkOnly(c, key, result) ==
    IF result.kind = "Ok" THEN CacheInsert(c, key, ReplyOf(result)) ELSE c

\* gui.rs:226-239: the cache after a Gateway result
CacheAfterCall(c, key, result) == CacheInsert(c, key, ReplyOf(result))

\* gui.rs:260-262: the reply has 'COMMAND: ' and a backtick after it
Proposes(response) ==
    LET cmd_start == Find(response, COMMAND_MARKER)
        cmd_part == SubSeq(response, cmd_start + Len(COMMAND_MARKER),
                           Len(response))
    IN  cmd_start # 0 /\ Find(cmd_part, BACKTICK) # 0

\* a variant of PendingAfterReply that drops the pending command when the
\* reply proposes nothing
PendingAfterReply_ClearsOnMiss(response, pending) ==
    LET cmd_start == Find(response, COMMAND_MARKER)
        cmd_part == SubSeq(response, cmd_start + Len(COMMAND_MARKER),
                           Len(response))
        cmd_end == Find(cmd_part, BACKTICK)
    IN  IF cmd_start # 0 /\ cmd_end # 0
        THEN Some(Trim(SubSeq(cmd_part, 1, cmd_end - 1)))
        ELSE None

\* a variant of PendingAfterReply that keeps the whitespace of the command
PendingAfterReply_NoTrim(response, pending) ==
    LET cmd_start == Find(response, COMMAND_MARKER)
        cmd_part == SubSeq(response, cmd_start + Len(COMMAND_MARKER),
                           Len(response))
        cmd_end == Find(cmd_part, BACKTICK)
    IN  IF cmd_start # 0 /\ cmd_end # 0
        THEN Some(SubSeq(cmd_part, 1, cmd_end - 1))
        ELSE pending

\* gui.rs:260-266: the pending command after a reply without the trigger
PendingAfterReply(response, pending) ==
    LET cmd_start == Find(response, COMMAND_MARKER)
        cmd_part == SubSeq(response, cmd_start + Len(COMMAND_MARKER),
                           Len(response))
        cmd_end == Find(cmd_part, BACKTICK)
    IN  IF cmd_start # 0 /\ cmd_end # 0
        THEN Some(Trim(SubSeq(cmd_part, 1, cmd_end - 1)))
        ELSE pending

\* gui.rs:245
HasExecuteMarker(response) == Contains(response, EXECUTE_LAST_COMMAND)

\* a variant of PendingAfterExecution that leaves the command pending
PendingAfterExecution_Keeps(pending) == pending

\* gui.rs:196 and gui.rs:248: self.pending_command = None
PendingAfterExecution(pending) == None

\* a variant of MessagesAfterTrigger that pushes no report
MessagesAfterTrigger_Silent(messages, pending, output) == messages

\* a variant of MessagesAfterTrigger that reports without looking at pending
MessagesAfterTrigger_Unguarded(messages, pending, output) ==
    Append(messages,
           ChatMessage(ExecutionReport(IF pending.some THEN pending.val
                                       ELSE <<>>, output), FALSE))

\* gui.rs:246-257: the messages after a reply that carries the trigger
MessagesAfterTrigger(messages, pending, output) ==
    IF pending.some
    THEN Append(messages,
                ChatMessage(ExecutionReport(pending.val, output), FALSE))
    ELSE messages

\* a variant of MessagesAfterReply that shows the reply in place of the log
MessagesAfterReply_Overwrite(messages, response) ==
    <<ChatMessage(response, FALSE)>>

\* gui.rs:268-274: the messages after a reply without the trigger
MessagesAfterReply(messages, response) ==
    Append(messages, ChatMessage(response, FALSE))

(***************************************************************************)
(* State.                                                                  *)
(***************************************************************************)
VARIABLES
    current_session,      \* LlmTermApp.current_session
    chat_sessions,        \* LlmTermApp.chat_sessions
    selected_session_id,  \* LlmTermApp.selected_session_id
    cache,                \* LlmTermApp.cache
    pending_command,      \* LlmTermApp.pending_command
    sessions_file,        \* the content of ~/.llm_term_sessions.json
    next_uuid,            \* the next value of uuid::Uuid::new_v4()
    turns,                \* calls of handle_user_prompt so far
    new_chats,            \* calls of new_chat so far
    loads,                \* calls of load_session so far
    gateway_calls,        \* per prompt, the calls of llm_get_response so far
    executions,           \* calls of execute_command so far
    proposals,            \* assignments of a proposed command (gui.rs:264)
    scenario,             \* the family of inputs of this run
    last,                 \* what the last operation did
    cli                   \* the run of main in the command-line mode

vars ==
    <<current_session, chat_sessions, selected_session_id, cache,
      pending_command, sessions_file, next_uuid, turns, new_chats, loads,
      gateway_calls, executions, proposals, scenario, last, cli>>

\* LlmTermApp::new (gui.rs:63-79)
Init ==
    /\ chat_sessions \in StoredLists
    /\ sessions_file = chat_sessions
    /\ current_session = DefaultSession(1)
    /\ next_uuid = 2
    /\ selected_session_id = None
    /\ cache = <<>>
    /\ pending_command = None
    /\ turns = 0
    /\ new_chats = 0
    /\ loads = 0
    /\ gateway_calls = [p \in Prompts |-> 0]
    /\ executions = 0
    /\ proposals = 0
    /\ scenario \in Scenarios
    /\ last = [op |-> "new"]
    /\ cli = [pc |-> "gui"]

\* save_chat_sessions (gui.rs:98-102): the file holds chat_sessions
SaveChatSessions(sessions) == sessions

(***************************************************************************)
(* handle_user_prompt (gui.rs:171-282): one whole turn.  api is the answer *)
(* of the HTTP client should the Gateway be called, outcome what the shell *)
(* does should a command be run.                                           *)
(***************************************************************************)
HandleUserPrompt(prompt, api, outcome) ==
    LET messages1 == MessagesAfterPrompt(current_session.messages, prompt)
        conversation_history == ConversationHistory(messages1)
        request == BuildMessages(prompt, conversation_history)
        title1 == TitleAfter(current_session.title, prompt)
        confirm == pending_command.some /\ IsAffirmation(prompt)
        cache_key == CacheKey(prompt)
        hit == cache_key \in DOMAIN cache
        result == LlmGetResponse(api)
        response == IF hit THEN cache[cache_key] ELSE ReplyOf(result)
        trigger == HasExecuteMarker(response)
        executes == confirm \/ (trigger /\ pending_command.some)
        proposes == ~confirm /\ ~trigger /\ Proposes(response)
        output == ExecuteCommand(pending_command.val, outcome)
        messages2 ==
            IF confirm
            THEN Append(messages1,
                        ChatMessage(ExecutionReport(pending_command.val,
                                                    output), FALSE))
            ELSE IF trigger
            THEN MessagesAfterTrigger(messages1, pending_command, output)
            ELSE MessagesAfterReply(messages1, response)
    IN  /\ turns < MaxTurns
        /\ turns' = turns + 1
        /\ current_session' =
               [current_session EXCEPT !.messages = messages2,
                                       !.title = title1]
        /\ pending_command' =
               IF executes THEN PendingAfterExecution(pending_command)
               ELSE IF confirm \/ trigger THEN pending_command
               ELSE PendingAfterReply(response, pending_command)
        /\ cache' = IF confirm \/ hit THEN cache
                    ELSE CacheAfterCall(cache, cache_key, result)
        /\ gateway_calls' =
               IF confirm \/ hit THEN gateway_calls
               ELSE [gateway_calls EXCEPT ![prompt] = @ + 1]
        /\ sessions_file' = SaveChatSessions(chat_sessions)
        /\ last' =
               [op |-> "turn",
                prompt |-> prompt,
                session_id |-> current_session.id,
                title_before |-> current_session.title,
                len_before |-> Len(current_session.messages),
                pending_before |-> pending_command,
                branch |-> IF confirm THEN "confirm" ELSE "query",
                cache_read |-> ~confirm,
                cache_hit |-> ~confirm /\ hit,
                gateway_called |-> ~confirm /\ ~hit,
                request |-> IF ~confirm /\ ~hit THEN Some(request) ELSE None,
                result |-> IF ~confirm /\ ~hit THEN Some(result) ELSE None,
                response |-> IF confirm THEN None ELSE Some(response),
                executed |-> IF executes THEN <<pending_command.val>>
                             ELSE <<>>,
                outcome |-> IF executes THEN Some(outcome) ELSE None,
                output |-> IF executes THEN Some(output) ELSE None]
        /\ executions' = IF executes THEN executions + 1 ELSE executions
        /\ proposals' = IF proposes THEN proposals + 1 ELSE proposals
        /\ UNCHANGED <<chat_sessions, selected_session_id, next_uuid,
                       new_chats, loads, scenario, cli>>

\* new_chat (gui.rs:108-117)
NewChat ==
    /\ new_chats < MaxNewChats
    /\ new_chats' = new_chats + 1
    /\ chat_sessions' =
           IF current_session.messages # <<>>
           THEN Append(chat_sessions, current_session)
           ELSE chat_sessions
    /\ current_session' = DefaultSession(next_uuid)
    /\ next_uuid' = next_uuid + 1
    /\ selected_session_id' = None
    /\ last' = [op |-> "new_chat"]
    /\ UNCHANGED <<cache, pending_command, sessions_file, turns, loads,
                   gateway_calls, executions, proposals, scenario, cli>>

\* iter().position(|s| s.id == session_id): 1-based, 0 for None
Position(sessions, session_id) ==
    LET hits == {i \in 1..Len(sessions) : sessions[i].id = session_id}
    IN  IF hits = {} THEN 0
        ELSE CHOOSE i \in hits : \A j \in hits : i <= j

\* Vec::remove(pos)
Remove(sessions, pos) ==
    SubSeq(sessions, 1, pos - 1) \o SubSeq(sessions, pos + 1, Len(sessions))

\* a variant of SessionsAfterLoad that does not put the replaced session back
SessionsAfterLoad_Drop(sessions, pos, current) == Remove(sessions, pos)

\* load_session (gui.rs:119-127): chat_sessions after the swap
SessionsAfterLoad(sessions, pos, current) ==
    Append(Remove(sessions, pos), current)

LoadSession(session_id) ==
    LET pos == Position(chat_sessions, session_id)
    IN  /\ loads < MaxLoads
        /\ loads' = loads + 1
        /\ IF pos # 0
           THEN /\ current_session' = chat_sessions[pos]
                /\ chat_sessions' =
                       SessionsAfterLoad(chat_sessions, pos, current_session)
                /\ selected_session_id' = Some(chat_sessions[pos].id)
           ELSE UNCHANGED <<current_session, chat_sessions,
                            selected_session_id>>
        /\ last' = [op |-> "load_session", session_id |-> session_id,
                    found |-> pos # 0]
        /\ UNCHANGED <<cache, pending_command, sessions_file, next_uuid,
                       turns, new_chats, gateway_calls, executions,
                       proposals, scenario, cli>>

\* update (gui.rs:303-323): the history panel offers the listed sessions
ListedIds == {chat_sessions[i].id : i \in 1..Len(chat_sessions)}

Turn ==
    \E prompt \in PromptsOf(scenario), api \in ApiResultsOf(scenario),
       outcome \in ExecOutcomesOf(scenario) :
        HandleUserPrompt(prompt, api, outcome)

\* load_session takes any id: the listed ones, and one that is not listed
LoadableIds == ListedIds \cup {current_session.id}

Load == \E session_id \in LoadableIds : LoadSession(session_id)

Next == Turn \/ NewChat \/ Load

Spec == Init /\ [][Next]_vars

(***************************************************************************)
(* The command-line mode (main.rs:78-126, 193-243).  A run of main is cut  *)
(* at its reads of standard input: cli.pc is the read main waits at.       *)
(***************************************************************************)
\* lines typed at the terminal, as read_line returns them
A_y == <<"y", "\n">>
A_Y_padded == <<" ", "Y", " ", "\n">>
A_n == <<"n", "\n">>
A_yes == <<"y", "e", "s", "\n">>
\* end of input: read_line returns Ok(0) and leaves the buffer empty
A_eof == <<>>
Answers == {A_y, A_Y_padded, A_n, A_yes, A_eof}

\* io::stdin().read_line(&mut user_input)
ReadOk(text) == [kind |-> "ok", text |-> text]
ReadErr == [kind |-> "err", text |-> <<>>]
ReadResults == {ReadOk(a) : a \in Answers} \cup {ReadErr}

\* fs::write of save_cache succeeds, or fails leaving the file as it was
SaveOutcomes == {"ok", "err"}

\* the prompt argument and the commands of the model
CliPrompts == {P_long, P_new_chat}
C_ls == <<"l", "s">>
C_id == <<"i", "d">>

\* load_cache (main.rs:185-191): what cache.json holds when main starts
StoredCaches ==
    {<<>>, [k \in {P_long} |-> C_ls], [k \in {P_long, P_new_chat} |-> C_ls]}

\* client.chat_completion_create as llm_get_command sees it
CliApiResults == {ApiOk(Some(C_id)), ApiOk(None), ApiErr(E_timeout)}

\* Model::llm_get_command (model.rs:106-112)
LlmGetCommand(api) ==
    IF api.kind = "ok"
    THEN [kind |-> "Ok", value |-> api.content]
    ELSE [kind |-> "Err", error |-> ERROR_PREFIX \o api.debug]

\* a variant of IsYes that accepts every answer that begins with y
IsYes_Prefix(user_input) ==
    LET t == ToLowercase(Trim(user_input))
    IN  t # <<>> /\ t[1] = "y"

\* main.rs:95, 102, 213: user_input.trim().to_lowercase() == "y"
IsYes(user_input) == ToLowercase(Trim(user_input)) = <<"y">>

\* a variant of CacheRemove that removes nothing
CacheRemove_Keeps(c, key) == c

\* HashMap::remove
CacheRemove(c, key) == [k \in (DOMAIN c) \ {key} |-> c[k]]

\* one thing main did, with the cache and the cache file as they were then
Event(ev, text, c) ==
    [ev |-> ev, text |-> text, cache |-> c.cache, file |-> c.cache_file]

\* c with one more event in its log
Logged(c, ev, text) == [c EXCEPT !.log = Append(@, Event(ev, text, c))]

\* main returns
Returned(c) == [c EXCEPT !.pc = "done"]

\* save_cache (main.rs:193-197)
SaveCache(c, save) ==
    IF save = "ok"
    THEN Logged([c EXCEPT !.cache_file = c.cache], "save", <<>>)
    ELSE Logged(c, "save_err", <<>>)

\* execute_command (main.rs:230-243)
CliExecuteCommand(c, command) == Logged(c, "execute", command)

\* get_command_from_llm up to its read_line (main.rs:205-211, 223-224)
GetCommandFromLlm(c, api) ==
    LET result == LlmGetCommand(api)
        c1 == Logged(c, "gateway", c.prompt)
    IN  IF result.kind = "Ok" /\ result.value.some
        THEN Logged([c1 EXCEPT !.pc = "ask_fresh",
                               !.command = result.value],
                    "ask_execute", result.value.val)
        ELSE Returned(c1)

\* main when it starts in the command-line mode, the cache loaded
CliInit ==
    /\ chat_sessions = <<>>
    /\ sessions_file = <<>>
    /\ current_session = DefaultSession(1)
    /\ next_uuid = 2
    /\ selected_session_id = None
    /\ cache = <<>>
    /\ pending_command = None
    /\ turns = 0
    /\ new_chats = 0
    /\ loads = 0
    /\ gateway_calls = [p \in Prompts |-> 0]
    /\ executions = 0
    /\ proposals = 0
    /\ scenario = "replies"
    /\ last = [op |-> "new"]
    /\ cli \in {[pc |-> "main", prompt |-> p, disable_cache |-> d,
                 cache |-> c, cache_file |-> c, cache0 |-> c,
                 command |-> None, log |-> <<>>] :
                    p \in CliPrompts, d \in BOOLEAN, c \in StoredCaches}

\* the state of the GUI, which a command-line run does not have
GuiUnchanged ==
    UNCHANGED <<current_session, chat_sessions, selected_session_id, cache,
                pending_command, sessions_file, next_uuid, turns, new_chats,
                loads, gateway_calls, executions, proposals, scenario, last>>

\* main.rs:83-120 up to the first read_line
Main(api) ==
    /\ cli.pc = "main"
    /\ cli' =
           IF ~cli.disable_cache /\ cli.prompt \in DOMAIN cli.cache
           THEN Logged([cli EXCEPT !.pc = "ask_cached",
                                   !.command = Some(cli.cache[cli.prompt])],
                       "ask_execute", cli.cache[cli.prompt])
           ELSE GetCommandFromLlm(cli, api)
    /\ GuiUnchanged

\* main.rs:92-98: the answer to 'execute this command?' on a cache hit
AnswerCached(read) ==
    /\ cli.pc = "ask_cached"
    /\ cli' =
           IF read.kind = "err" THEN Returned(Logged(cli, "read_err", <<>>))
           ELSE LET c1 == Logged(cli, "answer", read.text)
                IN  IF IsYes(read.text)
                    THEN Returned(CliExecuteCommand(c1, cli.command.val))
                    ELSE Logged([c1 EXCEPT !.pc = "ask_invalidate"],
                                "ask_invalidate", <<>>)
    /\ GuiUnchanged

\* main.rs:99-112: the answer to 'invalidate the cache?'
AnswerInvalidate(read, save, api) ==
    /\ cli.pc = "ask_invalidate"
    /\ cli' =
           IF read.kind = "err" THEN Returned(Logged(cli, "read_err", <<>>))
           ELSE LET c1 == Logged(cli, "answer", read.text)
                    c2 == Logged([c1 EXCEPT !.cache =
                                      CacheRemove(c1.cache, c1.prompt)],
                                 "remove", c1.prompt)
                    c3 == SaveCache(c2, save)
                IN  IF IsYes(read.text)
                    THEN (IF save = "ok" THEN GetCommandFromLlm(c3, api)
                          ELSE Returned(c3))
                    ELSE Returned(Logged(c1, "cancelled", <<>>))
    /\ GuiUnchanged

\* main.rs:210-221: the answer to 'execute this command?' on a new command
AnswerFresh(read, save) ==
    /\ cli.pc = "ask_fresh"
    /\ cli' =
           IF read.kind = "err" THEN Returned(Logged(cli, "read_err", <<>>))
           ELSE LET c1 == Logged(cli, "answer", read.text)
                    c2 == IF IsYes(read.text)
                          THEN CliExecuteCommand(c1, cli.command.val)
                          ELSE Logged(c1, "cancelled", <<>>)
                    c3 == [c2 EXCEPT !.cache =
                              CacheInsert(c2.cache, c2.prompt,
                                          c2.command.val)]
                IN  Returned(SaveCache(c3, save))
    /\ GuiUnchanged

CliStart == \E api \in CliApiResults : Main(api)

CliCached == \E read \in ReadResults : AnswerCached(read)

CliInvalidate ==
    \E read \in ReadResults, save \in SaveOutcomes, api \in CliApiResults :
        AnswerInvalidate(read, save, api)

CliFresh ==
    \E read \in ReadResults, save \in SaveOutcomes : AnswerFresh(read, save)

CliNext == CliStart \/ CliCached \/ CliInvalidate \/ CliFresh

CliSpec == CliInit /\ [][CliNext]_vars

(***************************************************************************)
(* Vocabulary of the properties.                                           *)
(***************************************************************************)
\* the last operation was a turn; current_session is then the session that
\* received its messages
TurnDone == last.op = "turn"
QueryDone == TurnDone /\ last.branch = "query"

\* the messages the last turn appended
Appended ==
    SubSeq(current_session.messages, last.len_before + 1,
           Len(current_session.messages))

\* the utterances of the model whose trimmed, lower-cased form is one of
\* yes, y, sure, go ahead, execute, run it, do it
AffirmativeUtterances ==
    {P_yes, P_y, P_sure, P_go_ahead, P_execute, P_run_it, P_do_it, P_Y}

\* a step of the system is a turn
IsTurnStep == turns' = turns + 1

\* the nine characters of reply from place i on are 'COMMAND: '
MarkerAt(reply, i) ==
    /\ i >= 1
    /\ i + 8 <= Len(reply)
    /\ \A k \in 0..8 : reply[i + k] = COMMAND_MARKER[k + 1]

\* reply has 'COMMAND: ' at i, and that is its first occurrence
FirstMarkerAt(reply, i) ==
    /\ MarkerAt(reply, i)
    /\ \A k \in 1..(i - 1) : ~MarkerAt(reply, k)

\* j is the place of the first backtick after the marker at i
NextBacktickAt(reply, i, j) ==
    /\ j \in (i + 9)..Len(reply)
    /\ reply[j] = BT
    /\ \A k \in (i + 9)..(j - 1) : reply[k] # BT

\* c is text with its leading and trailing whitespace removed
IsTrimOf(c, text) ==
    /\ c # <<>> => ~IsWhitespace(c[1]) /\ ~IsWhitespace(c[Len(c)])
    /\ \E a \in 0..Len(text) :
          /\ a + Len(c) <= Len(text)
          /\ SubSeq(text, a + 1, a + Len(c)) = c
          /\ \A k \in 1..Len(text) :
                (k <= a \/ k > a + Len(c)) => IsWhitespace(text[k])

\* reply carries a proposal a backtick terminates
HasProposal(reply) ==
    \E i \in 1..Len(reply), j \in 1..Len(reply) :
        FirstMarkerAt(reply, i) /\ NextBacktickAt(reply, i, j)

\* c is the command reply proposes
IsProposalOf(reply, c) ==
    \E i \in 1..Len(reply), j \in 1..Len(reply) :
        /\ FirstMarkerAt(reply, i)
        /\ NextBacktickAt(reply, i, j)
        /\ IsTrimOf(c, SubSeq(reply, i + 9, j - 1))

\* text begins with prefix
StartsWith(text, prefix) ==
    /\ Len(prefix) <= Len(text)
    /\ \A k \in 1..Len(prefix) : text[k] = prefix[k]

\* m is an execution report
IsExecutionReport(m) == ~m.is_user /\ StartsWith(m.content, EXECUTING_PREFIX)

\* how often id occurs in the session list
Occurrences(sessions, id) ==
    Cardinality({i \in 1..Len(sessions) : sessions[i].id = id})

(***************************************************************************)
(* The claims.                                                             *)
(***************************************************************************)
\* C1: a turn whose utterance is an affirmation (after trim and lower-casing)
\* and that starts with a pending command runs the Command Executor on
\* exactly that command, appends the user message and the execution report,
\* ends with no pending command, and neither calls the Gateway nor reads or
\* writes the cache.
C1_ConfirmationExecutesPending ==
    [][ (IsTurnStep /\ pending_command.some
            /\ last'.prompt \in AffirmativeUtterances)
        => /\ last'.executed = <<pending_command.val>>
           /\ pending_command' = None
           /\ ~last'.gateway_called
           /\ gateway_calls' = gateway_calls
           /\ ~last'.cache_read
           /\ cache' = cache
           /\ current_session'.messages =
                  current_session.messages
                  \o <<ChatMessage(last'.prompt, TRUE),
                       ChatMessage(ExecutionReport(pending_command.val,
                                                   last'.output.val), FALSE)>>
      ]_vars

\* C1 witness: the padded upper-case affirmation confirmed a pending command
C1_Witness ==
    /\ TurnDone
    /\ last.prompt = P_Y
    /\ last.pending_before = Some(<<"l", "s">>)
    /\ last.executed = <<(<<"l", "s">>)>>
    /\ pending_command = None

\* C2: in a query turn whose reply lacks EXECUTE_LAST_COMMAND and carries
\* 'COMMAND: ' followed later by a backtick, the pending command after the
\* turn is the text between the first 'COMMAND: ' and the next backtick,
\* trimmed, whatever was pending before, and the full reply is appended
\* unchanged as the Assistant message.
C2_ProposalBecomesPending ==
    (QueryDone
        /\ ~Contains(last.response.val, EXECUTE_LAST_COMMAND)
        /\ HasProposal(last.response.val))
    => /\ pending_command.some
       /\ IsProposalOf(last.response.val, pending_command.val)
       /\ Appended = <<ChatMessage(last.prompt, TRUE),
                       ChatMessage(last.response.val, FALSE)>>

\* C2 witness: a proposal of id replaced a pending ls
C2_Witness ==
    /\ QueryDone
    /\ last.response = Some(R_propose_id)
    /\ last.pending_before = Some(<<"l", "s">>)
    /\ pending_command = Some(<<"i", "d">>)

\* C3: the Gateway is called at most once for any prompt text; a query turn
\* leaves its reply in the cache under the prompt's key, and a query turn
\* whose prompt is in the cache takes that entry and calls nothing.
C3_GatewayOncePerPrompt ==
    /\ \A p \in Prompts : gateway_calls[p] <= 1
    /\ QueryDone =>
          /\ CACHE_PREFIX \o last.prompt \in DOMAIN cache
          /\ cache[CACHE_PREFIX \o last.prompt] = last.response.val
          /\ gateway_calls[last.prompt] = 1

\* C3 witness: a prompt asked before is answered from the cache
C3_Witness ==
    /\ QueryDone
    /\ last.cache_hit
    /\ ~last.gateway_called
    /\ gateway_calls[last.prompt] = 1

\* C4: in a query turn whose reply (from the Gateway or from the cache)
\* contains EXECUTE_LAST_COMMAND while a command is pending, the engine
\* executes that command, appends after the user message exactly one
\* Assistant message, the execution report, not the raw reply, and ends with
\* no pending command.
C4_TriggerExecutesPending ==
    (QueryDone
        /\ Contains(last.response.val, EXECUTE_LAST_COMMAND)
        /\ last.pending_before.some)
    => /\ last.executed = <<last.pending_before.val>>
       /\ pending_command = None
       /\ Appended =
              <<ChatMessage(last.prompt, TRUE),
                ChatMessage(ExecutionReport(last.pending_before.val,
                                            last.output.val), FALSE)>>

\* C4 witness: the trigger came from the cache while ls was pending
C4_Witness ==
    /\ QueryDone
    /\ last.cache_hit
    /\ last.response = Some(R_execute)
    /\ last.executed = <<(<<"l", "s">>)>>
    /\ pending_command = None

\* C5: a turn whose reply is EXECUTE_LAST_COMMAND while nothing is pending
\* executes no command, appends no execution report and ends with no
\* pending command.
C5_TriggerWithoutPending ==
    (QueryDone
        /\ Contains(last.response.val, EXECUTE_LAST_COMMAND)
        /\ ~last.pending_before.some)
    => /\ last.executed = <<>>
       /\ pending_command = None
       /\ \A k \in 1..Len(Appended) : ~IsExecutionReport(Appended[k])

\* C5 witness: the trigger arrived while nothing was pending
C5_Witness ==
    /\ QueryDone
    /\ last.response = Some(R_execute)
    /\ last.pending_before = None
    /\ last.executed = <<>>
    /\ pending_command = None

C7_LoadedSessionListedOnce ==
    (last.op = "load_session" /\ last.found)
    => Occurrences(chat_sessions, last.session_id) = 1

\* C8: a turn on a session that already holds a user message leaves the
\* session's title as it was.
C8_TitleSetOnce ==
    (TurnDone /\ last.len_before > 0)
    => current_session.title = last.title_before

\* C9 as claimed: the title the first user message gives has at most 30
\* characters and neither leading nor trailing whitespace.
C9_TitleTrimmed ==
    (TurnDone /\ last.len_before = 0)
    => LET t == current_session.title
       IN  /\ Len(t) <= 30
           /\ t # <<>> => ~IsWhitespace(t[1]) /\ ~IsWhitespace(t[Len(t)])

\* C9 as amended: the title the first user message gives is the first 30
\* characters of that message (all of it when shorter) with trailing
\* whitespace removed: at most 30 characters, a prefix of the message, not
\* ending in whitespace, and followed up to the 30th character by
\* whitespace only.
C9_TitleTrimmedEnd ==
    (TurnDone /\ last.len_before = 0)
    => LET t == current_session.title
           u == last.prompt
           cut == IF Len(u) < 30 THEN Len(u) ELSE 30
       IN  /\ Len(t) <= 30
           /\ Len(t) <= Len(u)
           /\ \A k \in 1..Len(t) : t[k] = u[k]
           /\ t # <<>> => ~IsWhitespace(t[Len(t)])
           /\ \A k \in (Len(t) + 1)..cut : IsWhitespace(u[k])

\* C9 witness: a first message of 33 characters, the 30th a space, gave a
\* title of 29 characters
C9_Witness ==
    /\ TurnDone
    /\ last.len_before = 0
    /\ last.prompt = P_long
    /\ Len(current_session.title) = 29

\* C10: a query turn whose reply has neither EXECUTE_LAST_COMMAND nor a
\* proposal that a backtick terminates leaves the pending command as it was
\* and appends the reply as it is.
C10_UnrelatedReplyKeepsPending ==
    (QueryDone
        /\ ~Contains(last.response.val, EXECUTE_LAST_COMMAND)
        /\ ~HasProposal(last.response.val))
    => /\ pending_command = last.pending_before
       /\ Appended = <<ChatMessage(last.prompt, TRUE),
                       ChatMessage(last.response.val, FALSE)>>

\* C10 witness: an unterminated marker left the pending ls pending
C10_Witness ==
    /\ QueryDone
    /\ last.response = Some(R_unterminated)
    /\ last.pending_before = Some(<<"l", "s">>)
    /\ pending_command = Some(<<"l", "s">>)

\* the saved collection holds the active session with every message it has
ActiveSessionSaved ==
    \E i \in 1..Len(sessions_file) :
        /\ sessions_file[i].id = current_session.id
        /\ sessions_file[i].messages = current_session.messages

\* C11: at the end of every turn the collection written by the save step
\* contains the active session with all messages appended so far, those of
\* the turn included.
C11_ActiveSessionPersisted == TurnDone => ActiveSessionSaved

\* the messages a session had before the last turn pushed anything
MessagesBefore == SubSeq(current_session.messages, 1, last.len_before)

\* messages as role-tagged turns, in their order
RoleTagged(messages) ==
    [i \in 1..Len(messages) |->
        [role |-> IF messages[i].is_user THEN "User" ELSE "Assistant",
         content |-> messages[i].content]]

\* C12: the request of a turn that calls the Gateway for U is the system
\* instruction, then the messages the session had before U, role-tagged and
\* in append order, then U as the final user turn, so that U is in the
\* request once for this turn.
C12_RequestHoldsUtteranceOnce ==
    (TurnDone /\ last.gateway_called) =>
        last.request.val =
            <<[role |-> "System", content |-> SYSTEM_PROMPT]>>
            \o RoleTagged(MessagesBefore)
            \o <<[role |-> "User", content |-> last.prompt]>>

\* a is a prefix of b
IsPrefix(a, b) == Len(a) <= Len(b) /\ SubSeq(b, 1, Len(a)) = a

\* the sessions that exist: the active one and the listed ones
AllSessions(current, sessions) ==
    {current} \cup {sessions[i] : i \in 1..Len(sessions)}

\* C13: for every session id, over turns, new_chat and load_session, the
\* message list of the session only grows by appending: in every step the
\* list a session has before is a prefix of the list it has after, whether
\* the session is the active one or sits in the session list.
C13_MessagesAppendOnly ==
    [][\A s \in AllSessions(current_session, chat_sessions),
          t \in AllSessions(current_session', chat_sessions') :
            s.id = t.id => IsPrefix(s.messages, t.messages)]_vars

\* a session was moved to the list, loaded back next to a second session
\* with messages, and then received a turn
C13_Witness ==
    /\ TurnDone
    /\ new_chats = 1
    /\ loads = 1
    /\ current_session.id = 1
    /\ last.len_before >= 2
    /\ Len(current_session.messages) > last.len_before
    /\ \E i \in 1..Len(chat_sessions) :
          chat_sessions[i].id = 2 /\ chat_sessions[i].messages # <<>>

\* 1 when a command is pending, else 0
PendingCount == IF pending_command.some THEN 1 ELSE 0

\* C14: a pending command is cleared in the turn that executes it, so one
\* proposal is executed at most once: a turn that executed ends with no
\* command pending, and the executions so far, plus the command still
\* pending, never outnumber the turns in which a reply with a 'COMMAND: '
\* proposal set the pending command; every execution after the first is
\* hence preceded by a new proposal.
C14_ProposalExecutedAtMostOnce ==
    /\ (TurnDone /\ last.executed # <<>>) => pending_command = None
    /\ executions + PendingCount <= proposals
    /\ (TurnDone /\ last.executed # <<>>) => last.pending_before.some

\* a command was proposed and executed, and the affirmation repeated in the
\* next turn found nothing pending and executed nothing
C14_Witness ==
    /\ TurnDone
    /\ executions = 1
    /\ proposals = 1
    /\ last.prompt \in AffirmativeUtterances
    /\ last.executed = <<>>
    /\ pending_command = None
    /\ \E k \in 1..last.len_before :
          IsExecutionReport(current_session.messages[k])

\* C15: every turn, whichever branch it takes, first appends the utterance
\* verbatim as a User message to the active session; whatever else the turn
\* appends is an Assistant message and comes after it.
C15_UtteranceAppendedFirst ==
    TurnDone =>
        /\ Len(current_session.messages) > last.len_before
        /\ current_session.messages[last.len_before + 1] =
               ChatMessage(last.prompt, TRUE)
        /\ \A k \in (last.len_before + 2)..Len(current_session.messages) :
               ~current_session.messages[k].is_user
        /\ current_session.id = last.session_id

\* a turn whose Gateway call failed logged the padded utterance and then the
\* error reply
C15_Witness ==
    /\ TurnDone
    /\ last.gateway_called
    /\ last.result.val.kind = "Err"
    /\ last.prompt = P_Y
    /\ Len(Appended) = 2
    /\ Appended[1].is_user
    /\ ~Appended[2].is_user

\* the text a Gateway result stands for in the conversation
ReplyTextOf(r) ==
    IF r.kind = "Ok" /\ r.value.some THEN r.value.val
    ELSE IF r.kind = "Ok" THEN FALLBACK_REPLY
    ELSE ERROR_PREFIX \o r.error

\* C16: after every non-confirmation turn with utterance U the cache holds,
\* under the key 'unified:' followed by U verbatim, exactly the reply the
\* turn used; when the turn called the Gateway that reply is the Gateway's
\* text on success, the fixed fallback string when the Gateway returned no
\* text, and the formatted error string on failure.
C16_CacheHoldsReplyUsed ==
    QueryDone =>
        /\ (CACHE_PREFIX \o last.prompt) \in DOMAIN cache
        /\ cache[CACHE_PREFIX \o last.prompt] = last.response.val
        /\ last.gateway_called =>
               last.response.val = ReplyTextOf(last.result.val)

\* the Gateway returned no text for the padded utterance and the fallback
\* string was cached under the untrimmed key
C16_Witness ==
    /\ QueryDone
    /\ last.gateway_called
    /\ last.prompt = P_Y
    /\ last.result.val.kind = "Ok"
    /\ ~last.result.val.value.some
    /\ cache[CACHE_PREFIX \o P_Y] = FALLBACK_REPLY

\* C17: the response cache never evicts or changes an entry: in every step
\* of a run, turn, new_chat or load_session, each key of the cache stays in
\* the cache with the value it had.
C17_CacheNeverEvicts ==
    [][\A k \in DOMAIN cache : k \in DOMAIN cache' /\ cache'[k] = cache[k]]_vars

\* two utterances are cached, a new chat and a load have happened, and the
\* last turn was answered from the cache
C17_Witness ==
    /\ TurnDone
    /\ last.cache_hit
    /\ Cardinality(DOMAIN cache) = 2
    /\ new_chats = 1
    /\ loads = 1

\* the last turn ran the Command Executor
ExecutedDone == TurnDone /\ last.executed # <<>>

\* text ends with an empty line: its last two characters are newlines
EndsWithBlankLine(text) ==
    /\ Len(text) >= 2
    /\ text[Len(text)] = "\n"
    /\ text[Len(text) - 1] = "\n"

\* C18 as stated: the result text is stdout alone when stderr is empty,
\* stderr alone when stdout is empty, stdout then a blank line then stderr
\* when both are non-empty, the fixed sentinel when both are empty, and an
\* error string when spawning or waiting fails.
C18_BlankLineBetweenStreams ==
    ExecutedDone =>
        LET o == last.outcome.val
            out == last.output.val
        IN  IF o.kind = "spawn_err" THEN out = START_FAILED_PREFIX \o o.err
            ELSE IF o.kind = "wait_err" THEN out = EXEC_FAILED_PREFIX \o o.err
            ELSE IF o.stdout = <<>> /\ o.stderr = <<>>
                 THEN out = NO_OUTPUT_SENTINEL
            ELSE IF o.stderr = <<>> THEN out = o.stdout
            ELSE IF o.stdout = <<>> THEN out = o.stderr
            ELSE \E sep \in {<<"\n">>, <<"\n", "\n">>} :
                    /\ out = o.stdout \o sep \o o.stderr
                    /\ EndsWithBlankLine(o.stdout \o sep)

\* C18: the result text of the Command Executor is stdout alone when stderr
\* is empty, stderr alone when stdout is empty, stdout then one newline
\* character then stderr when both are non-empty, the fixed sentinel
\* 'Command executed successfully (no output)' when both are empty, and an
\* error string naming the failure when spawning or waiting fails.
C18_ExecutorResultText ==
    ExecutedDone =>
        LET o == last.outcome.val
            out == last.output.val
        IN  IF o.kind = "spawn_err" THEN out = START_FAILED_PREFIX \o o.err
            ELSE IF o.kind = "wait_err" THEN out = EXEC_FAILED_PREFIX \o o.err
            ELSE IF o.stdout = <<>> /\ o.stderr = <<>>
                 THEN out = NO_OUTPUT_SENTINEL
            ELSE IF o.stderr = <<>> THEN out = o.stdout
            ELSE IF o.stdout = <<>> THEN out = o.stderr
            ELSE out = o.stdout \o <<"\n">> \o o.stderr

\* a command wrote 'a' to stdout and 'e' to stderr
C18_Witness ==
    /\ ExecutedDone
    /\ last.outcome.val = O_both
    /\ last.output.val = <<"a", "\n", "e">>

\* C19: when the obtained reply contains EXECUTE_LAST_COMMAND and no command
\* is pending, the reply is handled by the remaining parse rules: a
\* terminated 'COMMAND: ' proposal in it becomes the pending command and the
\* full reply text is appended as the Assistant message right after the User
\* message.
C19_TriggerWithoutPendingIsParsed ==
    (/\ QueryDone
     /\ Contains(last.response.val, EXECUTE_LAST_COMMAND)
     /\ ~last.pending_before.some) =>
        /\ Appended = <<ChatMessage(last.prompt, TRUE),
                        ChatMessage(last.response.val, FALSE)>>
        /\ HasProposal(last.response.val) =>
               /\ pending_command.some
               /\ IsProposalOf(last.response.val, pending_command.val)

\* C20: a turn executes a command only if a command was pending when the
\* turn started and either the utterance is an affirmation or the obtained
\* reply contains EXECUTE_LAST_COMMAND; it executes at most one command, the
\* one that was pending at its start, never one its own reply proposed; a
\* turn that starts with nothing pending executes nothing and is handled as
\* an ordinary query, an affirmation included.
C20_ExecutionOnlyOfPending ==
    TurnDone =>
        /\ Len(last.executed) <= 1
        /\ last.executed # <<>> =>
               /\ last.pending_before.some
               /\ last.executed = <<last.pending_before.val>>
               /\ \/ last.prompt \in AffirmativeUtterances
                  \/ /\ last.response.some
                     /\ Contains(last.response.val, EXECUTE_LAST_COMMAND)
        /\ ~last.pending_before.some =>
               /\ last.executed = <<>>
               /\ last.branch = "query"
               /\ last.cache_read
        /\ (last.executed = <<>>) = ~last.output.some

\* 'yes' was sent while nothing was pending: the turn went to the Gateway,
\* whose reply proposed a command that is now pending and was not executed
C20_Witness ==
    /\ TurnDone
    /\ last.prompt = P_yes
    /\ ~last.pending_before.some
    /\ last.gateway_called
    /\ HasProposal(last.response.val)
    /\ pending_command.some
    /\ last.executed = <<>>
    /\ executions = 0

\* a step of the system is a call of load_session
IsLoadStep == loads' = loads + 1

\* id is the id of a listed session
IsListed(sessions, id) == \E i \in 1..Len(sessions) : sessions[i].id = id

\* C21: load_session(id) with a listed id makes that session the active one
\* and puts the session that was active into the list; the active session
\* together with the list holds the same sessions, with the same messages,
\* before and after, none lost and none twice.  load_session with an id that
\* is not listed changes nothing.
C21_LoadSessionSwaps ==
    [][IsLoadStep =>
          IF IsListed(chat_sessions, last'.session_id)
          THEN /\ current_session'.id = last'.session_id
               /\ current_session' \in AllSessions(current_session,
                                                   chat_sessions)
               /\ \E i \in 1..Len(chat_sessions') :
                     chat_sessions'[i] = current_session
               /\ AllSessions(current_session', chat_sessions') =
                      AllSessions(current_session, chat_sessions)
               /\ Len(chat_sessions') = Len(chat_sessions)
               /\ Occurrences(chat_sessions', current_session'.id) = 0
          ELSE /\ current_session' = current_session
               /\ chat_sessions' = chat_sessions
               /\ selected_session_id' = selected_session_id]_vars

\* the stored session was loaded while a session with messages was active
\* and another one sat in the list
C21_Witness ==
    /\ last.op = "load_session"
    /\ last.found
    /\ current_session.id = 0
    /\ Len(chat_sessions) = 2
    /\ \A i \in 1..2 : chat_sessions[i].messages # <<>>

\* C22: in every reachable state the ids in the session list are pairwise
\* distinct and the id of the active session does not occur in the list.
C22_SessionIdsDistinct ==
    /\ \A i, j \in 1..Len(chat_sessions) :
          chat_sessions[i].id = chat_sessions[j].id => i = j
    /\ ~IsListed(chat_sessions, current_session.id)

\* three sessions exist after a new chat and a load: two listed, one active
C22_Witness ==
    /\ new_chats = 1
    /\ loads = 1
    /\ last.op = "load_session"
    /\ last.found
    /\ Len(chat_sessions) = 2
    /\ chat_sessions[1].id # chat_sessions[2].id

\* C23: whenever a turn executes a command, the active session holds an
\* Assistant message from before the turn whose 'COMMAND: ' proposal is that
\* command, also when new_chat or load_session steps lie between the
\* proposal and the confirmation.
C23_ExecutedWhereProposed ==
    ExecutedDone =>
        \E k \in 1..last.len_before :
            /\ ~current_session.messages[k].is_user
            /\ IsProposalOf(current_session.messages[k].content,
                            last.executed[1])

\* C24: in every reachable state a pending command has non-empty text, and
\* the Command Executor is never run on an empty command.
C24_PendingCommandNonEmpty ==
    /\ pending_command.some => pending_command.val # <<>>
    /\ ExecutedDone => last.executed[1] # <<>>

(***************************************************************************)
(* The claims about the command-line mode.                                 *)
(***************************************************************************)
\* the answers of the model that are 'y' once trimmed and lower-cased
YesAnswers == {A_y, A_Y_padded}

\* the places of the log where main did ev
EventsAt(ev) == {i \in 1..Len(cli.log) : cli.log[i].ev = ev}

\* C25: in the command-line mode a command, cached or new, is executed only
\* if the answer to the question whether to execute it is 'y' once trimmed
\* and lower-cased; any other answer executes nothing; a run executes at
\* most one command.
C25_CliExecutesOnlyOnY ==
    /\ Cardinality(EventsAt("execute")) <= 1
    /\ \A i \in EventsAt("execute") :
          /\ i >= 3
          /\ cli.log[i - 1].ev = "answer"
          /\ cli.log[i - 1].text \in YesAnswers
          /\ cli.log[i - 2].ev = "ask_execute"
          /\ cli.log[i - 2].text = cli.log[i].text
    /\ \A i \in EventsAt("ask_execute") :
          (/\ i + 2 <= Len(cli.log)
           /\ cli.log[i + 1].ev = "answer"
           /\ cli.log[i + 1].text \notin YesAnswers) =>
              cli.log[i + 2].ev # "execute"

\* the cached command was declined with 'yes', the cache invalidated, and
\* the new command executed on 'y'
C25_Witness ==
    /\ cli.pc = "done"
    /\ Cardinality(EventsAt("ask_execute")) = 2
    /\ Cardinality(EventsAt("execute")) = 1
    /\ cli.log[2].ev = "answer"
    /\ cli.log[2].text = A_yes

\* the run started with the cache enabled and the prompt in the cache
CacheHit == ~cli.disable_cache /\ cli.prompt \in DOMAIN cli.cache0

\* the user declined the cached command and answered 'y' to invalidating it
Invalidated ==
    /\ Len(cli.log) >= 4
    /\ cli.log[1].ev = "ask_execute"
    /\ cli.log[2].ev = "answer"
    /\ cli.log[2].text \notin YesAnswers
    /\ cli.log[3].ev = "ask_invalidate"
    /\ cli.log[4].ev = "answer"
    /\ cli.log[4].text \in YesAnswers

\* cache0 without the entry of the prompt
WithoutPrompt ==
    [k \in (DOMAIN cli.cache0) \ {cli.prompt} |-> cli.cache0[k]]

\* C26: on a cache hit in the command-line mode the Gateway is called only
\* after the user declined the cached command and answered 'y' to
\* invalidating it, and then the entry has been removed from the cache and
\* the cache saved before the call; on every other path of a cache hit the
\* Gateway is not called and the cache, in memory and on disk, is unchanged.
C26_CliGatewayAfterInvalidation ==
    CacheHit =>
        /\ \A i \in EventsAt("gateway") :
              /\ Invalidated
              /\ i = 7
              /\ cli.log[5].ev = "remove"
              /\ cli.log[6].ev = "save"
              /\ cli.log[i].cache = WithoutPrompt
              /\ cli.log[i].file = WithoutPrompt
        /\ ~Invalidated =>
              /\ EventsAt("gateway") = {}
              /\ cli.cache = cli.cache0
              /\ cli.cache_file = cli.cache0

\* after an invalidation the Gateway was called and produced no command:
\* the entry stays removed, in memory and on disk
C26_Witness ==
    /\ CacheHit
    /\ Invalidated
    /\ cli.pc = "done"
    /\ EventsAt("gateway") = {7}
    /\ Len(cli.log) = 7
    /\ cli.prompt \notin DOMAIN cli.cache_file
    /\ DOMAIN cli.cache_file # {}

====
